---- MODULE Spec2Model ----
(***************************************************************************)
(* A model of the front end and support code of bcc2: the value-number     *)
(* counter, the mmap arena and the growable vector of src/helper.c, and    *)
(* the recursive-descent parser of parser.c (src/unnamed/part_000).        *)
(*                                                                         *)
(* The module holds four state machines over one set of variables:         *)
(*   SpecVN     next_vn                                                    *)
(*   SpecPool   mempool_* and vector_*                                     *)
(*   SpecLit    make_intlit_expr / pos_to_num on one literal               *)
(*   SpecParse  parse_ast on a token stream (SpecParseFair adds fairness)  *)
(* Each machine leaves the variables of the others unchanged.              *)
(***************************************************************************)
EXTENDS Integers, Sequences, FiniteSets, TLC

VARIABLES
    reg,        \* helper.c:34  static int64_t reg of next_vn
    issued,     \* every value next_vn has returned so far, with its caller
    pool,       \* MemPool: state, size, alloc, and the PROT_READ|PROT_WRITE prefix
    regions,    \* every region mempool_alloc has returned, in order: [off, len]
    vec,        \* Vector: it_sz, items, alloc, data (offset in the pool)
    accesses,   \* byte ranges the last vector operation read or wrote
    toks,       \* the token stream the lexer delivers
    intended,   \* the expression tree the token stream was written from
    lexpos,     \* lexer position: index of the next token
    stack,      \* the C call stack of the parser, innermost frame last
    retval,     \* the value the last returning function returned
    diags,      \* diagnostics written to stderr by log_source_err
    status,     \* "idle", "running", "returned" (parse_ast returned), "exit", "crash"
    ast,        \* AST ret of parse_ast
    src_base    \* part_000:8  const uint8_t *src_base

vnVars == <<reg, issued>>
poolVars == <<pool, regions, vec, accesses>>
parseVars == <<toks, intended, lexpos, stack, retval, diags, status, ast, src_base>>
vars == <<reg, issued, pool, regions, vec, accesses, toks, intended, lexpos,
          stack, retval, diags, status, ast, src_base>>

Max(a, b) == IF a >= b THEN a ELSE b

(***************************************************************************)
(* Bounds of the model.                                                    *)
(***************************************************************************)
MaxCalls == 5        \* calls to next_vn in one run
MaxRegions == 3      \* an allocation is made while the arena holds fewer regions
MaxItems == 33       \* vector_push/alloc/insert are made while fewer items exist
MaxInitItems == 2    \* item counts given to vector_init_size: 0..MaxInitItems
MaxDigits == 3       \* digits of an integer literal
MaxOps == 2          \* binary operators in a generated expression

(***************************************************************************)
(* helper.c: next_vn                                                       *)
(***************************************************************************)
Callers == {"ir_gen", "ssa", "backend"}

\* A counter that is read but not advanced.
next_vn_stuck(r) == [ret |-> r, reg |-> r]

\* int64_t next_vn() { static int64_t reg = 1; return reg++; }
next_vn(r) == [ret |-> r, reg |-> r + 1]

call_next_vn ==
    /\ Len(issued) < MaxCalls
    /\ \E c \in Callers :
         LET r == next_vn(reg)
         IN /\ reg' = r.reg
            /\ issued' = Append(issued, [caller |-> c, id |-> r.ret])
    /\ UNCHANGED <<poolVars, parseVars>>

(***************************************************************************)
(* helper.c: the arena.  Addresses are offsets from pool->base.            *)
(* POOL_MAX_SZ is 4294967296 in the source, beyond 32-bit model integers:  *)
(* the model keeps the chunk size and scales the limit to four chunks, so  *)
(* that the out-of-memory branch is reached.                               *)
(***************************************************************************)
POOL_CHUNK_SZ == 4096
POOL_MAX_SZ == 16384
VEC_INIT_ALLOC == 32

Amounts == {0, 1, POOL_CHUNK_SZ + 1, 2 * POOL_CHUNK_SZ}
ItemSizes == {1, 8}

PoolUninit == [state |-> "uninit", size |-> 0, alloc |-> 0, rw |-> 0]
VecUninit == [state |-> "uninit", it_sz |-> 0, items |-> 0, alloc |-> 0, data |-> 0]

\* what mprotect returns: 0, or -1 when the kernel refuses (ENOMEM)
MprotectResults == {0, -1}

\* mprotect(base + off, len, PROT_READ | PROT_WRITE) returning res, on a mapping
\* whose read/write part is the prefix [0, rw)
mprotect_rw(rw, off, len, res) ==
    IF res = 0 /\ off <= rw THEN Max(rw, off + len) ELSE rw

RECURSIVE size_needed_loop(_, _)
size_needed_loop(ret, requested) ==
    IF ret < requested THEN size_needed_loop(ret + POOL_CHUNK_SZ, requested) ELSE ret

size_needed(requested) == size_needed_loop(0, requested)

\* An allocator that forgets where the previous region ended.
mempool_alloc_reuse(p, amount, res) ==
    [oom |-> FALSE, ret |-> 0, pool |-> [p EXCEPT !.size = amount]]

\* void *mempool_alloc(MemPool *pool, size_t amount), its mprotect returning
\* res: the result is not looked at
mempool_alloc(p, amount, res) ==
    LET grow == p.size + amount + 1 >= p.alloc
        needed == size_needed(amount)
        oom == grow /\ p.alloc + needed > POOL_MAX_SZ
    IN  [oom |-> oom,
         ret |-> p.size,
         pool |-> IF oom THEN [p EXCEPT !.state = "oom"]
                  ELSE [p EXCEPT !.rw = IF grow THEN mprotect_rw(@, p.alloc, needed, res) ELSE @,
                                 !.alloc = IF grow THEN @ + needed ELSE @,
                                 !.size = @ + amount]]

\* the region an allocation hands out, appended to the history
Returned(rs, r, amount) == IF r.oom THEN rs ELSE Append(rs, [off |-> r.ret, len |-> amount])

\* mmap failing or the first mprotect returning -1 ends in log_internal_err
mempool_init ==
    /\ pool.state = "uninit"
    /\ \E mapped \in BOOLEAN, res \in MprotectResults :
         pool' = IF mapped /\ res = 0
                 THEN [state |-> "live", size |-> 0, alloc |-> POOL_CHUNK_SZ,
                       rw |-> mprotect_rw(0, 0, POOL_CHUNK_SZ, res)]
                 ELSE [PoolUninit EXCEPT !.state = "failed"]
    /\ UNCHANGED <<regions, vec, accesses, vnVars, parseVars>>

mempool_deinit ==
    /\ pool.state = "live"
    /\ pool' = [pool EXCEPT !.state = "dead"]
    /\ UNCHANGED <<regions, vec, accesses, vnVars, parseVars>>

call_mempool_alloc ==
    /\ pool.state = "live"
    /\ Len(regions) < MaxRegions
    /\ \E amount \in Amounts, res \in MprotectResults :
         LET r == mempool_alloc(pool, amount, res)
         IN /\ pool' = r.pool
            /\ regions' = Returned(regions, r, amount)
    /\ UNCHANGED <<vec, accesses, vnVars, parseVars>>

(***************************************************************************)
(* helper.c: the vector.  An access is a byte range [lo, hi) relative to   *)
(* the start of a buffer of cap bytes; ranges of length 0 touch no byte    *)
(* and are not recorded.                                                   *)
(***************************************************************************)
Access(cap, lo, len) == IF len = 0 THEN {} ELSE {[cap |-> cap, lo |-> lo, hi |-> lo + len]}

vector_init ==
    /\ pool.state = "live" /\ vec.state = "uninit"
    /\ Len(regions) < MaxRegions
    /\ \E it_sz \in ItemSizes, res \in MprotectResults :
         LET r == mempool_alloc(pool, it_sz * VEC_INIT_ALLOC, res)
         IN /\ pool' = r.pool
            /\ regions' = Returned(regions, r, it_sz * VEC_INIT_ALLOC)
            /\ vec' = IF r.oom THEN vec
                      ELSE [state |-> "live", it_sz |-> it_sz, items |-> 0,
                            alloc |-> VEC_INIT_ALLOC, data |-> r.ret]
    /\ UNCHANGED <<accesses, vnVars, parseVars>>

vector_init_size ==
    /\ pool.state = "live" /\ vec.state = "uninit"
    /\ Len(regions) < MaxRegions
    /\ \E it_sz \in ItemSizes, items \in 0..MaxInitItems, res \in MprotectResults :
         LET r == mempool_alloc(pool, it_sz * items, res)
         IN /\ pool' = r.pool
            /\ regions' = Returned(regions, r, it_sz * items)
            /\ vec' = IF r.oom THEN vec
                      ELSE [state |-> "live", it_sz |-> it_sz, items |-> items,
                            alloc |-> items, data |-> r.ret]
    /\ UNCHANGED <<accesses, vnVars, parseVars>>

\* void vector_resize(Vector *vec): the new buffer, the copy, the doubled alloc
vector_resize(p, v, res) ==
    LET amount == v.alloc * v.it_sz * 2
        r == mempool_alloc(p, amount, res)
    IN  [oom |-> r.oom, pool |-> r.pool, amount |-> amount, ret |-> r.ret,
         vec |-> IF r.oom THEN v ELSE [v EXCEPT !.data = r.ret, !.alloc = @ * 2],
         acc |-> IF r.oom THEN {}
                 ELSE Access(amount, 0, v.items * v.it_sz)
                      \cup Access(v.alloc * v.it_sz, 0, v.items * v.it_sz)]

\* if (vec->items + 1 > vec->alloc) vector_resize(vec);
ensure_room(p, v, res) ==
    IF v.items + 1 > v.alloc
    THEN LET r == vector_resize(p, v, res)
         IN [oom |-> r.oom, pool |-> r.pool, vec |-> r.vec, acc |-> r.acc,
             regs |-> IF r.oom THEN <<>> ELSE <<[off |-> r.ret, len |-> r.amount]>>]
    ELSE [oom |-> FALSE, pool |-> p, vec |-> v, acc |-> {}, regs |-> <<>>]

Cap(v) == v.alloc * v.it_sz

\* the indexes tried: both ends
Indexes(lo, hi) == {i \in {lo, hi} : lo <= i /\ i <= hi}

VecOp(r, v2, acc) ==
    /\ pool' = r.pool
    /\ regions' = regions \o r.regs
    /\ vec' = IF r.oom THEN vec ELSE v2
    /\ accesses' = IF r.oom THEN {} ELSE r.acc \cup acc
    /\ UNCHANGED <<vnVars, parseVars>>

VecReady == pool.state = "live" /\ vec.state = "live"

\* an operation that adds an item is tried while the bounds leave room for it
CanAdd ==
    /\ VecReady
    /\ vec.items < MaxItems
    /\ (vec.items + 1 > vec.alloc => Len(regions) < MaxRegions)

vector_push ==
    /\ CanAdd
    /\ \E res \in MprotectResults :
         LET r == ensure_room(pool, vec, res)
             v == r.vec
         IN VecOp(r, [v EXCEPT !.items = @ + 1],
                  Access(Cap(v), v.items * v.it_sz, v.it_sz))

\* the slot vector_alloc returns is written by its caller
vector_alloc ==
    /\ CanAdd
    /\ \E res \in MprotectResults :
         LET r == ensure_room(pool, vec, res)
             v == r.vec
         IN VecOp(r, [v EXCEPT !.items = @ + 1],
                  Access(Cap(v), v.items * v.it_sz, v.it_sz))

vector_insert ==
    /\ CanAdd
    /\ \E idx \in Indexes(0, vec.items), res \in MprotectResults :
         LET r == ensure_room(pool, vec, res)
             v == r.vec
         IN VecOp(r, [v EXCEPT !.items = @ + 1],
                  Access(Cap(v), (idx + 1) * v.it_sz, (v.items - idx) * v.it_sz)
                  \cup Access(Cap(v), idx * v.it_sz, (v.items - idx) * v.it_sz)
                  \cup Access(Cap(v), idx * v.it_sz, v.it_sz))

vector_remove ==
    /\ VecReady
    /\ \E idx \in Indexes(0, vec.items - 1) :
         VecOp([oom |-> FALSE, pool |-> pool, regs |-> <<>>, acc |-> {}],
               [vec EXCEPT !.items = @ - 1],
               Access(Cap(vec), idx * vec.it_sz, (vec.items - idx) * vec.it_sz)
               \cup Access(Cap(vec), (idx + 1) * vec.it_sz, (vec.items - idx) * vec.it_sz))

(***************************************************************************)
(* parser.c: tokens, source positions and AST values.                      *)
(* The source text is the concatenation of the tokens' texts; a position   *)
(* is [start, sz] in characters from the start of the buffer.  An integer  *)
(* literal's text is its digits followed by its suffix, every other token  *)
(* is one character wide, and TOK_EOF is empty.                            *)
(***************************************************************************)
Src == "src"       \* the buffer handed to parse_ast
NullPtr == "NULL"

IntlitTypes == {"INTLIT_U8", "INTLIT_I8", "INTLIT_U16", "INTLIT_I16", "INTLIT_U32",
                "INTLIT_I32", "INTLIT_U64", "INTLIT_I64", "INTLIT_I64_NONE"}

\* static const size_t intlit_pos_sz[]
intlit_pos_sz(t) ==
    CASE t \in {"INTLIT_U8", "INTLIT_I8"} -> 2
      [] t = "INTLIT_I64_NONE" -> 0
      [] OTHER -> 3

\* the suffix characters as the differences c - '0' that pos_to_num would compute
SuffixChars(t) ==
    CASE t = "INTLIT_U8"  -> <<69, 8>>
      [] t = "INTLIT_I8"  -> <<57, 8>>
      [] t = "INTLIT_U16" -> <<69, 1, 6>>
      [] t = "INTLIT_I16" -> <<57, 1, 6>>
      [] t = "INTLIT_U32" -> <<69, 3, 2>>
      [] t = "INTLIT_I32" -> <<57, 3, 2>>
      [] t = "INTLIT_U64" -> <<69, 6, 4>>
      [] t = "INTLIT_I64" -> <<57, 6, 4>>
      [] OTHER -> <<>>

T(k) == [t |-> k, digits |-> <<>>, lt |-> "INTLIT_I64_NONE"]
IntTok(ds, lt) == [t |-> "TOK_INT", digits |-> ds, lt |-> lt]

TokSz(tk) == IF tk.t = "TOK_INT" THEN Len(tk.digits) + intlit_pos_sz(tk.lt) ELSE 1

RECURSIVE TokStart(_, _)
TokStart(ts, i) == IF i <= 1 THEN 0 ELSE TokStart(ts, i - 1) + TokSz(ts[i - 1])

\* SourcePosition make_pos(buf, sz)
make_pos(start, sz) == [start |-> start, sz |-> sz]

\* SourcePosition combine_pos(pos1, pos2)
combine_pos(pos1, pos2) ==
    [start |-> pos1.start, sz |-> (pos2.start - pos1.start) + pos2.sz]

NullPos == make_pos(0, 0)
NullTok == [t |-> "NONE", pos |-> NullPos, intlit_type |-> "INTLIT_I64_NONE", chars |-> <<>>]
NullExpr == [t |-> "NULL", pos |-> NullPos]
NullStmt == [t |-> "NULL", pos |-> NullPos, name |-> NullPos, mut |-> 0,
             type |-> NullPtr, value |-> NullExpr]
NullParam == [name |-> NullPos, type |-> NullPtr]
NullFn == [name |-> NullPos, pos |-> NullPos, params |-> <<>>, ret_type |-> NullPtr,
           body |-> [stmts |-> <<>>]]

\* the lexer's tokens of a stream of token texts, each with its position
Lex(ts) ==
    [i \in 1..Len(ts) |->
        [t |-> ts[i].t, pos |-> make_pos(TokStart(ts, i), TokSz(ts[i])),
         intlit_type |-> ts[i].lt, chars |-> ts[i].digits \o SuffixChars(ts[i].lt)]]

\* the token the lexer holds at index i of the lexed stream; from the end on,
\* TOK_EOF at the end of the text
TokenAt(ts, i) ==
    IF i > Len(ts)
    THEN [t |-> "TOK_EOF",
          pos |-> make_pos(IF ts = <<>> THEN 0
                           ELSE ts[Len(ts)].pos.start + ts[Len(ts)].pos.sz, 0),
          intlit_type |-> "INTLIT_I64_NONE", chars |-> <<>>]
    ELSE ts[i]

\* Token lexer_peek(void)
lexer_peek(s) == TokenAt(toks, s.lexpos)

\* Token lexer_next(void): the token, and the lexer moved past it
lexer_next(s) ==
    [tok |-> TokenAt(toks, s.lexpos),
     s |-> [s EXCEPT !.lexpos = IF @ > Len(toks) THEN @ ELSE @ + 1]]

(***************************************************************************)
(* The state of the running parser as one record, and the calls that move  *)
(* it: each parser function below maps the record before one of its steps  *)
(* to the record after it.  A step ends where the function calls another   *)
(* parser function, returns, or has reported an error.                     *)
(***************************************************************************)
State == [lexpos |-> lexpos, stack |-> stack, retval |-> retval, diags |-> diags,
          status |-> status, ast |-> ast, src_base |-> src_base]

Frame(fn) == [fn |-> fn, pc |-> 0, e |-> NullExpr, op |-> "NONE", tok |-> NullTok,
              tok2 |-> NullTok, list |-> <<>>, ty |-> NullPtr, flag |-> 0]

\* Once the process has ended (status is no longer "running") nothing of it moves.
Top(s) == s.stack[Len(s.stack)]
SetTop(s, f) ==
    IF s.status # "running" THEN s ELSE [s EXCEPT !.stack[Len(s.stack)] = f]
Call(s, f, callee) ==
    IF s.status # "running" THEN s
    ELSE [s EXCEPT !.stack = Append(SubSeq(@, 1, Len(@) - 1), f) \o <<callee>>]
Return(s, v) ==
    IF s.status # "running" THEN s
    ELSE [s EXCEPT !.stack = SubSeq(@, 1, Len(@) - 1), !.retval = v]

\* A log_source_err that prints and returns, as log_err does.
log_source_err_returns(s, msg, base, pos) ==
    [s EXCEPT !.diags = Append(@, [msg |-> msg, base |-> base, pos |-> pos])]

\* void log_source_err(fmt, base, pos, ...): the message, the source line, exit.
\* The scan back to the start of the line stops at base or at a newline; with a
\* base that is not the buffer's it may leave the buffer, and the process then
\* ends either in exit(EXIT_FAILURE) or killed: status "exit?" stands for both.
log_source_err(s, msg, base, pos) ==
    [s EXCEPT !.diags = Append(@, [msg |-> msg, base |-> base, pos |-> pos]),
              !.status = IF base = Src THEN "exit" ELSE "exit?"]

\* log_internal_err: the message and exit(EXIT_FAILURE)
log_internal_err(s, msg) ==
    [s EXCEPT !.diags = Append(@, [msg |-> msg, base |-> "internal", pos |-> NullPos]),
              !.status = "exit"]

\* static Token expect(TokKind t, const char *err_msg)
expect(s, t, err_msg) ==
    LET r == lexer_next(s)
    IN  [tok |-> r.tok,
         s |-> IF r.tok.t # t
               THEN log_source_err(r.s, err_msg, r.s.src_base, r.tok.pos)
               ELSE r.s]

\* static Expr *make_expr(AST *ast, int t, SourcePosition pos)
make_expr(t, pos) == [t |-> t, pos |-> pos, type |-> NullPtr]

\* ast_init(&ret, src): an AST with no function, holding the source base
ast_init(src) == [fns |-> <<>>, src_base |-> src]

(***************************************************************************)
(* parser.c: integer literals                                              *)
(***************************************************************************)
\* __builtin_add_overflow on uint64_t.  The accumulator starts at 0 (the node
\* is fresh arena memory of an anonymous mapping) and one addend is below 256,
\* so no sum the model forms reaches 2^64.
add_overflow(a, b) == [ovf |-> FALSE, val |-> a + b]

\* the loop of pos_to_num from index i on, reading chars[i + 1] for pos.start[i]
RECURSIVE pos_to_num_loop(_, _, _, _)
pos_to_num_loop(chars, sz, i, ret) ==
    IF i < sz
    THEN LET r == add_overflow(ret, chars[i + 1])
         IN IF ~r.ovf THEN [rc |-> 0, val |-> r.val]
            ELSE pos_to_num_loop(chars, sz, i + 1, r.val)
    ELSE [rc |-> 1, val |-> ret]

\* static int pos_to_num(SourcePosition pos, uint64_t *ret)
pos_to_num(chars, pos, ret) == pos_to_num_loop(chars, pos.sz, 0, ret)

\* static inline Expr *make_intlit_expr(AST *ast, SourcePosition whole_pos, int t)
make_intlit_expr(s, tok) ==
    LET whole_pos == tok.pos
        t == tok.intlit_type
        ret == make_expr("EXPR_INT", whole_pos)
        r == pos_to_num(tok.chars, [whole_pos EXCEPT !.sz = @ - intlit_pos_sz(t)], 0)
        s1 == IF r.rc # 0 THEN log_source_err(s, "overflow", s.ast.src_base, whole_pos)
              ELSE s
    IN  [s |-> s1, e |-> ret @@ [val |-> r.val, lit |-> t]]

(***************************************************************************)
(* parser.c: expressions                                                   *)
(***************************************************************************)
\* static int parse_binop(): the operator of the token consumed
binop_of(t) ==
    CASE t = "TOK_ADD" -> "BINOP_ADD"
      [] t = "TOK_SUB" -> "BINOP_SUB"
      [] t = "TOK_MUL" -> "BINOP_MUL"
      [] t = "TOK_DIV" -> "BINOP_DIV"
      [] t = "TOK_DEQ" -> "BINOP_EQ"
      [] t = "TOK_NEQ" -> "BINOP_NEQ"
      [] t = "TOK_GR" -> "BINOP_GR"
      [] t = "TOK_LE" -> "BINOP_LE"
      [] t = "TOK_GREQ" -> "BINOP_GREQ"
      [] t = "TOK_LEEQ" -> "BINOP_LEEQ"
      [] OTHER -> "NONE"

parse_binop(s) ==
    LET r == lexer_next(s)
        op == binop_of(r.tok.t)
    IN  [op |-> op,
         s |-> IF op = "NONE" THEN log_internal_err(r.s, "impossible binary op token")
               ELSE r.s]

\* A factor loop that also takes '+'.
FactorOpsWithAdd == {"TOK_MUL", "TOK_DIV", "TOK_ADD"}

\* the loop conditions of parse_factor, parse_term and parse_comp
FactorOps == {"TOK_MUL", "TOK_DIV"}
TermOps == {"TOK_ADD", "TOK_SUB"}
CompOps == {"TOK_DEQ", "TOK_NEQ", "TOK_GR", "TOK_LE", "TOK_GREQ", "TOK_LEEQ"}

\* while ((tok = lexer_peek()).t is one of ops) { op = parse_binop(); right = sub(ast); ...
binop_loop(s, ops, sub) ==
    LET f == Top(s)
    IN  IF lexer_peek(s).t \in ops
        THEN LET r == parse_binop(s)
             IN Call(r.s, [f EXCEPT !.op = r.op, !.pc = 2], Frame(sub))
        ELSE Return(s, f.e)

\* the body shared by parse_factor, parse_term and parse_comp:
\*   pc 0  ret = sub(ast)
\*   pc 1  sub has returned ret; the loop test
\*   pc 2  sub has returned right; new_ret = make_expr(...); ret = new_ret; the loop test
binop_level(s, ops, sub) ==
    LET f == Top(s)
    IN  CASE f.pc = 0 -> Call(s, [f EXCEPT !.pc = 1], Frame(sub))
          [] f.pc = 1 -> binop_loop(SetTop(s, [f EXCEPT !.e = s.retval]), ops, sub)
          [] OTHER ->
               LET right == s.retval
                   new_ret == make_expr("EXPR_BINOP", combine_pos(f.e.pos, right.pos))
                              @@ [left |-> f.e, right |-> right, op |-> f.op]
               IN binop_loop(SetTop(s, [f EXCEPT !.e = new_ret]), ops, sub)

parse_factor_step(s) == binop_level(s, FactorOps, "parse_primary")
parse_term_step(s) == binop_level(s, TermOps, "parse_factor")
parse_comp_step(s) == binop_level(s, CompOps, "parse_term")

\* static inline Expr *parse_expr(AST *ast) { return parse_comp(ast); }
parse_expr == Frame("parse_comp")

\* the end of parse_funcall: expect(')'), the EXPR_FUNCALL node
funcall_finish(s) ==
    LET f == Top(s)
        r == expect(s, "TOK_RPAREN", "expected ')'")
        ret == make_expr("EXPR_FUNCALL", combine_pos(f.tok.pos, r.tok.pos))
               @@ [args |-> f.list, name |-> f.tok.pos]
    IN  Return(r.s, ret)

\* while (lexer_peek().t != TOK_RPAREN) { Expr *temp = parse_expr(ast); ...
funcall_loop(s) ==
    IF lexer_peek(s).t # "TOK_RPAREN"
    THEN Call(s, [Top(s) EXCEPT !.pc = 1], parse_expr)
    ELSE funcall_finish(s)

\* static Expr *parse_funcall(AST *ast, Token name_tok); name_tok is f.tok
\*   pc 0  lexer_next(); vector_init(&args); the loop test
\*   pc 1  parse_expr has returned temp; vector_push; the comma; the loop test
parse_funcall_step(s) ==
    LET f == Top(s)
    IN  CASE f.pc = 0 -> funcall_loop(SetTop(lexer_next(s).s, [f EXCEPT !.list = <<>>]))
          [] OTHER ->
               LET s1 == SetTop(s, [f EXCEPT !.list = Append(@, s.retval)])
               IN IF lexer_peek(s1).t # "TOK_COMMA"
                  THEN funcall_finish(s1)
                  ELSE funcall_loop(lexer_next(s1).s)

\* static Expr *parse_primary(AST *ast)
\*   pc 0  the switch on the token consumed
\*   pc 1  parse_funcall has returned
\*   pc 2  parse_expr has returned the parenthesised expression; expect(')')
parse_primary_step(s) ==
    LET f == Top(s)
    IN  CASE f.pc = 0 ->
               LET r == lexer_next(s)
                   tok == r.tok
               IN CASE tok.t = "TOK_INT" ->
                         LET m == make_intlit_expr(r.s, tok) IN Return(m.s, m.e)
                    [] tok.t = "TOK_SYM" ->
                         IF lexer_peek(r.s).t = "TOK_LPAREN"
                         THEN Call(r.s, [f EXCEPT !.pc = 1],
                                   [Frame("parse_funcall") EXCEPT !.tok = tok])
                         ELSE Return(r.s, make_expr("EXPR_VAR", tok.pos))
                    [] tok.t = "TOK_LPAREN" ->
                         Call(r.s, [f EXCEPT !.pc = 2], parse_expr)
                    [] OTHER ->
                         Return(log_source_err(r.s, "expected expression",
                                               r.s.src_base, tok.pos), NullExpr)
          [] f.pc = 1 -> Return(s, s.retval)
          [] OTHER ->
               LET ret == s.retval
                   r == expect(s, "TOK_RPAREN", "expected ')'")
               IN Return(r.s, ret)

(***************************************************************************)
(* parser.c: types, statements, blocks, functions                          *)
(***************************************************************************)
TypeToks == {"TOK_U8", "TOK_U16", "TOK_U32", "TOK_U64", "TOK_I8", "TOK_I16",
             "TOK_I32", "TOK_I64", "TOK_BOOL"}

type_of(t) ==
    CASE t = "TOK_U8" -> "U8_const"
      [] t = "TOK_U16" -> "U16_const"
      [] t = "TOK_U32" -> "U32_const"
      [] t = "TOK_U64" -> "U64_const"
      [] t = "TOK_I8" -> "I8_const"
      [] t = "TOK_I16" -> "I16_const"
      [] t = "TOK_I32" -> "I32_const"
      [] t = "TOK_I64" -> "I64_const"
      [] t = "TOK_BOOL" -> "bool_const"
      [] OTHER -> NullPtr

\* static Type *parse_type(AST *ast)
parse_type_step(s) ==
    LET r == lexer_next(s)
    IN  IF r.tok.t \in TypeToks
        THEN Return(r.s, type_of(r.tok.t))
        ELSE Return(log_source_err(r.s, "expected type name", r.s.src_base, r.tok.pos),
                    NullPtr)

\* the end of parse_let: stmt->pos, name and mut; the statement is complete
let_finish(s, type, value, last_tok) ==
    LET f == Top(s)
    IN  Return(s, [t |-> "STMT_LET", pos |-> combine_pos(f.tok.pos, last_tok.pos),
                   name |-> f.tok2.pos, mut |-> f.flag, type |-> type, value |-> value])

\* static void parse_let(AST *ast, Stmt *stmt, int mut); mut is f.flag,
\* first_tok f.tok, var_name f.tok2
\*   pc 0  first_tok = lexer_next(); var_name = expect(TOK_SYM)
\*   pc 1  middle_tok = lexer_next(): '=', ':' or an error
\*   pc 2  after '=': parse_expr has returned the value; expect(TOK_NEWLINE)
\*   pc 3  after ':': parse_type has returned the type; equal_tok = lexer_next()
\*   pc 4  after ': type =': parse_expr has returned the value; expect(TOK_NEWLINE)
parse_let_step(s) ==
    LET f == Top(s)
    IN  CASE f.pc = 0 ->
               LET r1 == lexer_next(s)
                   r2 == expect(r1.s, "TOK_SYM", "expected variable name")
               IN SetTop(r2.s, [f EXCEPT !.tok = r1.tok, !.tok2 = r2.tok, !.pc = 1])
          [] f.pc = 1 ->
               LET r == lexer_next(s)
               IN CASE r.tok.t = "TOK_EQ" -> Call(r.s, [f EXCEPT !.pc = 2], parse_expr)
                    [] r.tok.t = "TOK_COLON" ->
                         Call(r.s, [f EXCEPT !.pc = 3], Frame("parse_type"))
                    [] OTHER ->
                         let_finish(log_source_err(r.s, "expected '=' or ':'",
                                                   r.s.src_base, r.tok.pos),
                                    NullPtr, NullExpr, NullTok)
          [] f.pc = 2 ->
               LET r == expect(s, "TOK_NEWLINE", "expected newline or ';'")
               IN let_finish(r.s, NullPtr, s.retval, r.tok)
          [] f.pc = 3 ->
               LET r == lexer_next(s)
               IN CASE r.tok.t = "TOK_EQ" ->
                         Call(r.s, [f EXCEPT !.ty = s.retval, !.pc = 4], parse_expr)
                    [] r.tok.t = "TOK_NEWLINE" ->
                         let_finish(r.s, s.retval, NullExpr, r.tok)
                    [] OTHER ->
                         let_finish(log_source_err(r.s, "expected '=' or ';'",
                                                   r.s.src_base, r.tok.pos),
                                    s.retval, NullExpr, NullTok)
          [] OTHER ->
               LET r == expect(s, "TOK_NEWLINE", "expected newline or ';'")
               IN let_finish(r.s, f.ty, s.retval, r.tok)

\* static void parse_expr_stmt(AST *ast, Stmt *stmt)
parse_expr_stmt_step(s) ==
    LET f == Top(s)
    IN  IF f.pc = 0
        THEN Call(s, [f EXCEPT !.pc = 1], parse_expr)
        ELSE LET r == expect(s, "TOK_NEWLINE", "expected newline or ';'")
             IN Return(r.s, [NullStmt EXCEPT !.t = "STMT_EXPR", !.value = s.retval])

\* static void parse_return(AST *ast, Stmt *stmt)
parse_return_step(s) ==
    LET f == Top(s)
    IN  IF f.pc = 0
        THEN LET r == lexer_next(s)
             IN IF lexer_peek(r.s).t = "TOK_NEWLINE"
                THEN Return(lexer_next(r.s).s, [NullStmt EXCEPT !.t = "STMT_RETURN"])
                ELSE Call(r.s, [f EXCEPT !.pc = 1], parse_expr)
        ELSE LET r == expect(s, "TOK_NEWLINE", "expected newline or ';'")
             IN Return(r.s, [NullStmt EXCEPT !.t = "STMT_RETURN", !.value = s.retval])

\* A '}' case that leaves the switch but not the loop.
block_rcurly_break(s) == s

\* case TOK_RCURLY: lexer_next(); return;
block_rcurly(s) == Return(lexer_next(s).s, [stmts |-> Top(s).list])

\* a statement function is called on the slot vector_alloc(&block->stmts) returns
block_call(s, callee) ==
    Call(s, [Top(s) EXCEPT !.list = Append(@, NullStmt), !.pc = 2], callee)

\* while (1) { switch (lexer_peek().t) { ...
block_loop(s) ==
    LET t == lexer_peek(s).t
    IN  CASE t = "TOK_LET" -> block_call(s, [Frame("parse_let") EXCEPT !.flag = 0])
          [] t = "TOK_RETURN" -> block_call(s, Frame("parse_return"))
          [] t = "TOK_MUT" -> block_call(s, [Frame("parse_let") EXCEPT !.flag = 1])
          [] t = "TOK_RCURLY" -> block_rcurly(s)
          [] OTHER -> block_call(s, Frame("parse_expr_stmt"))

\* void parse_block(Block *block, AST *ast)
\*   pc 0  lexer_next(); vector_init(&block->stmts); the switch
\*   pc 1  the switch
\*   pc 2  the statement function has filled its slot; the switch
parse_block_step(s) ==
    LET f == Top(s)
    IN  CASE f.pc = 0 ->
               block_loop(SetTop(lexer_next(s).s, [f EXCEPT !.list = <<>>, !.pc = 1]))
          [] f.pc = 1 -> block_loop(s)
          [] OTHER ->
               block_loop(SetTop(s, [f EXCEPT !.list[Len(f.list)] = s.retval, !.pc = 1]))

\* the end of parse_fn's parameter loop: skip ')', the return type, the body
fn_after_params(s) ==
    LET r == lexer_next(s)
        f == Top(s)
    IN  IF lexer_peek(r.s).t # "TOK_LCURLY"
        THEN Call(r.s, [f EXCEPT !.ty = "void_const", !.pc = 5], Frame("parse_type"))
        ELSE Call(r.s, [f EXCEPT !.ty = "void_const", !.pc = 6], Frame("parse_block"))

\* while (lexer_peek().t != TOK_RPAREN) { Param *param = vector_alloc(...);
\*                                        Token name_tok = expect(TOK_SYM, ...);
fn_param_loop(s) ==
    LET f == Top(s)
    IN  IF lexer_peek(s).t # "TOK_RPAREN"
        THEN LET r == expect(s, "TOK_SYM", "expected param name")
             IN SetTop(r.s, [f EXCEPT !.list = Append(@, NullParam), !.tok2 = r.tok,
                                      !.pc = 3])
        ELSE fn_after_params(s)

\* void parse_fn(AST *ast, Function *function); name_tok is f.tok, params f.list,
\* ret_type f.ty
\*   pc 0  name_tok = expect(TOK_SYM)
\*   pc 1  expect(TOK_LPAREN)
\*   pc 2  vector_init(&function->params); the loop test
\*   pc 3  param->name = name_tok.pos; parse_type
\*   pc 4  parse_type has returned param->type; the comma; the loop test
\*   pc 5  parse_type has returned ret_type; parse_block
\*   pc 6  parse_block has filled function->body
parse_fn_step(s) ==
    LET f == Top(s)
    IN  CASE f.pc = 0 ->
               LET r == expect(s, "TOK_SYM", "expected function name")
               IN SetTop(r.s, [f EXCEPT !.tok = r.tok, !.pc = 1])
          [] f.pc = 1 ->
               LET r == expect(s, "TOK_LPAREN", "expected '('")
               IN SetTop(r.s, [f EXCEPT !.pc = 2])
          [] f.pc = 2 -> fn_param_loop(SetTop(s, [f EXCEPT !.list = <<>>]))
          [] f.pc = 3 ->
               Call(s, [f EXCEPT !.list[Len(f.list)].name = f.tok2.pos, !.pc = 4],
                    Frame("parse_type"))
          [] f.pc = 4 ->
               LET s1 == SetTop(s, [f EXCEPT !.list[Len(f.list)].type = s.retval])
               IN IF lexer_peek(s1).t = "TOK_COMMA"
                  THEN fn_param_loop(lexer_next(s1).s)
                  ELSE fn_param_loop(s1)
          [] f.pc = 5 ->
               Call(s, [f EXCEPT !.ty = s.retval, !.pc = 6], Frame("parse_block"))
          [] OTHER ->
               Return(s, [name |-> f.tok.pos, pos |-> f.tok.pos, params |-> f.list,
                          ret_type |-> f.ty, body |-> s.retval])

\* while (lexer_peek().t != TOK_EOF) parse_fn(&ret, vector_alloc(&ret.fns));
\* src_base = src; return ret;
ast_loop(s) ==
    IF lexer_peek(s).t # "TOK_EOF"
    THEN Call([s EXCEPT !.ast.fns = Append(@, NullFn)], [Top(s) EXCEPT !.pc = 1],
              Frame("parse_fn"))
    ELSE [Return(s, s.ast) EXCEPT !.src_base = Src, !.status = "returned"]

\* AST parse_ast(const uint8_t *src)
\*   pc 0  ast_init(&ret, src), twice; the loop test
\*   pc 1  parse_fn has filled its slot; the loop test
parse_ast_step(s) ==
    IF Top(s).pc = 0
    THEN ast_loop([s EXCEPT !.ast = ast_init(Src)])
    ELSE ast_loop([s EXCEPT !.ast.fns[Len(s.ast.fns)] = s.retval])

(***************************************************************************)
(* The token streams parsed.  Expression programs are written from a tree: *)
(* the function "f ( ) {" <expression> "; }" whose expression has          *)
(* parentheses exactly where the tree's shape needs them.  Sample programs *)
(* cover the rest of the grammar; every prefix of a sample is parsed too,  *)
(* which is the program cut off by the end of the file.                    *)
(***************************************************************************)
AllBinops == {"BINOP_ADD", "BINOP_SUB", "BINOP_MUL", "BINOP_DIV", "BINOP_EQ",
              "BINOP_NEQ", "BINOP_GR", "BINOP_LE", "BINOP_GREQ", "BINOP_LEEQ"}
\* two operators of each level, for the trees of more than one operator
CoreBinops == {"BINOP_ADD", "BINOP_SUB", "BINOP_MUL", "BINOP_DIV", "BINOP_EQ", "BINOP_LE"}

tok_of(op) ==
    CASE op = "BINOP_ADD" -> "TOK_ADD"
      [] op = "BINOP_SUB" -> "TOK_SUB"
      [] op = "BINOP_MUL" -> "TOK_MUL"
      [] op = "BINOP_DIV" -> "TOK_DIV"
      [] op = "BINOP_EQ" -> "TOK_DEQ"
      [] op = "BINOP_NEQ" -> "TOK_NEQ"
      [] op = "BINOP_GR" -> "TOK_GR"
      [] op = "BINOP_LE" -> "TOK_LE"
      [] op = "BINOP_GREQ" -> "TOK_GREQ"
      [] OTHER -> "TOK_LEEQ"

\* binding strength: comparison 1, additive 2, multiplicative 3
Level(op) ==
    CASE op \in {"BINOP_MUL", "BINOP_DIV"} -> 3
      [] op \in {"BINOP_ADD", "BINOP_SUB"} -> 2
      [] OTHER -> 1

NoTree == [t |-> "NONE"]
Leaf == [t |-> "EXPR_VAR"]
Bin(op, l, r) == [t |-> "EXPR_BINOP", op |-> op, left |-> l, right |-> r]

RECURSIVE TreesOf(_, _)
TreesOf(ops, n) ==
    IF n = 0 THEN {Leaf}
    ELSE UNION {{Bin(op, l, r) : op \in ops, l \in TreesOf(ops, i),
                                 r \in TreesOf(ops, n - 1 - i)} : i \in 0..(n - 1)}

Trees == TreesOf(AllBinops, 1) \cup UNION {TreesOf(CoreBinops, n) : n \in 0..MaxOps}

Paren(ts) == <<T("TOK_LPAREN")>> \o ts \o <<T("TOK_RPAREN")>>

\* the tokens of a tree: a left operand that binds weaker than its operator and
\* a right operand that binds no tighter are parenthesised
RECURSIVE Unparse(_)
Unparse(tr) ==
    IF tr.t = "EXPR_VAR" THEN <<T("TOK_SYM")>>
    ELSE LET l == Unparse(tr.left)
             r == Unparse(tr.right)
             lp == tr.left.t = "EXPR_BINOP" /\ Level(tr.left.op) < Level(tr.op)
             rp == tr.right.t = "EXPR_BINOP" /\ Level(tr.right.op) <= Level(tr.op)
         IN (IF lp THEN Paren(l) ELSE l) \o <<T(tok_of(tr.op))>>
            \o (IF rp THEN Paren(r) ELSE r)

ExprProgram(tr) ==
    <<T("TOK_SYM"), T("TOK_LPAREN"), T("TOK_RPAREN"), T("TOK_LCURLY")>>
    \o Unparse(tr) \o <<T("TOK_NEWLINE"), T("TOK_RCURLY")>>

\* the tree of a parsed expression: its nodes without positions and types
RECURSIVE Shape(_)
Shape(e) ==
    IF e.t = "EXPR_BINOP" THEN Bin(e.op, Shape(e.left), Shape(e.right))
    ELSE [t |-> e.t]

FnHead == <<T("TOK_SYM"), T("TOK_LPAREN"), T("TOK_RPAREN"), T("TOK_LCURLY")>>

\*  f ( a u8 , b i64 ) i32 {
\*    let x = 12u8 ;  mut y : u16 = x ;  let z : bool ;
\*    return g ( x , 7 ) * ( y + 3i64 ) ;  return ;  h ( ) ;
\*  }
\*  g ( ) { }
SampleFull ==
    <<T("TOK_SYM"), T("TOK_LPAREN"), T("TOK_SYM"), T("TOK_U8"), T("TOK_COMMA"),
      T("TOK_SYM"), T("TOK_I64"), T("TOK_RPAREN"), T("TOK_I32"), T("TOK_LCURLY"),
      T("TOK_LET"), T("TOK_SYM"), T("TOK_EQ"), IntTok(<<1, 2>>, "INTLIT_U8"),
      T("TOK_NEWLINE"),
      T("TOK_MUT"), T("TOK_SYM"), T("TOK_COLON"), T("TOK_U16"), T("TOK_EQ"),
      T("TOK_SYM"), T("TOK_NEWLINE"),
      T("TOK_LET"), T("TOK_SYM"), T("TOK_COLON"), T("TOK_BOOL"), T("TOK_NEWLINE"),
      T("TOK_RETURN"), T("TOK_SYM"), T("TOK_LPAREN"), T("TOK_SYM"), T("TOK_COMMA"),
      IntTok(<<7>>, "INTLIT_I64_NONE"), T("TOK_RPAREN"), T("TOK_MUL"), T("TOK_LPAREN"),
      T("TOK_SYM"), T("TOK_ADD"), IntTok(<<3>>, "INTLIT_I64"), T("TOK_RPAREN"),
      T("TOK_NEWLINE"),
      T("TOK_RETURN"), T("TOK_NEWLINE"),
      T("TOK_SYM"), T("TOK_LPAREN"), T("TOK_RPAREN"), T("TOK_NEWLINE"),
      T("TOK_RCURLY"),
      T("TOK_SYM"), T("TOK_LPAREN"), T("TOK_RPAREN"), T("TOK_LCURLY"), T("TOK_RCURLY")>>

\*  f ( a u16 b u32 , c u64 , d i8 , e i16 , ) bool { }
SampleTypes ==
    <<T("TOK_SYM"), T("TOK_LPAREN"), T("TOK_SYM"), T("TOK_U16"), T("TOK_SYM"),
      T("TOK_U32"), T("TOK_COMMA"), T("TOK_SYM"), T("TOK_U64"), T("TOK_COMMA"),
      T("TOK_SYM"), T("TOK_I8"), T("TOK_COMMA"), T("TOK_SYM"), T("TOK_I16"),
      T("TOK_COMMA"), T("TOK_RPAREN"), T("TOK_BOOL"), T("TOK_LCURLY"), T("TOK_RCURLY")>>

\* programs with a token that is wrong where it stands
SampleErrors ==
    { <<T("TOK_LPAREN")>>,                                        \* (
      <<T("TOK_SYM"), T("TOK_LCURLY")>>,                          \* f {
      <<T("TOK_SYM"), T("TOK_LPAREN"), T("TOK_U8")>>,             \* f ( u8
      <<T("TOK_SYM"), T("TOK_LPAREN"), T("TOK_SYM"), T("TOK_RPAREN")>>,   \* f ( a )
      <<T("TOK_SYM"), T("TOK_LPAREN"), T("TOK_RPAREN"), T("TOK_SYM"),
        T("TOK_LCURLY")>>,                                        \* f ( ) x {
      FnHead \o <<T("TOK_LET"), T("TOK_SYM"), T("TOK_ADD"), T("TOK_SYM"),
                  T("TOK_NEWLINE"), T("TOK_RCURLY")>>,            \* let x + a ; }
      FnHead \o <<T("TOK_LET"), T("TOK_LET")>>,                   \* let let
      FnHead \o <<T("TOK_MUT"), T("TOK_SYM"), T("TOK_COLON"), T("TOK_U8"),
                  T("TOK_ADD")>>,                                 \* mut x : u8 +
      FnHead \o <<T("TOK_LET"), T("TOK_SYM"), T("TOK_COLON"), T("TOK_SYM")>>,
      FnHead \o <<T("TOK_RPAREN")>>,                              \* )
      FnHead \o <<T("TOK_SYM"), T("TOK_SYM"), T("TOK_NEWLINE"),
                  T("TOK_RCURLY")>>,                              \* a b ; }
      FnHead \o <<T("TOK_SYM"), T("TOK_MUL"), T("TOK_ADD")>>,     \* a * +
      FnHead \o <<T("TOK_LPAREN"), T("TOK_SYM"), T("TOK_NEWLINE")>>,      \* ( a ;
      FnHead \o <<T("TOK_SYM"), T("TOK_LPAREN"), T("TOK_SYM"), T("TOK_NEWLINE")>>,
      FnHead \o <<T("TOK_RETURN"), T("TOK_SYM"), T("TOK_RCURLY")>>,       \* return a }
      FnHead \o <<T("TOK_LET"), T("TOK_SYM"), T("TOK_EQ"), T("TOK_SYM"),
                  T("TOK_RCURLY")>>,                              \* let x = a }
      FnHead \o <<T("TOK_NEWLINE")>> }                            \* ;

Prefixes(ts) == {SubSeq(ts, 1, k) : k \in 0..Len(ts)}

Samples == UNION {Prefixes(ts) : ts \in {SampleFull, SampleTypes} \cup SampleErrors}

Inputs ==
    {[toks |-> Lex(ExprProgram(tr)), tree |-> tr] : tr \in Trees}
    \cup {[toks |-> Lex(ts), tree |-> NoTree] : ts \in Samples}

Digits == 0..9
DigitStrings == UNION {[1..n -> Digits] : n \in 1..MaxDigits}
Literals == {IntTok(ds, lt) : ds \in DigitStrings, lt \in IntlitTypes}

(***************************************************************************)
(* The actions: one per parser function, taking the step of the innermost  *)
(* frame.                                                                  *)
(***************************************************************************)
\* how a process that left log_source_err's scan of the source line can end
Outcomes(st) == IF st = "exit?" THEN {"exit", "crash"} ELSE {st}

Step(n) ==
    /\ lexpos' = n.lexpos
    /\ stack' = n.stack
    /\ retval' = n.retval
    /\ diags' = n.diags
    /\ status' \in Outcomes(n.status)
    /\ ast' = n.ast
    /\ src_base' = n.src_base
    /\ UNCHANGED <<toks, intended, vnVars, poolVars>>

Running(fn) == status = "running" /\ stack # <<>> /\ stack[Len(stack)].fn = fn

\* the driver calls parse_ast(src) on one of the token streams
call_parse_ast ==
    /\ status = "idle"
    /\ \E inp \in Inputs : toks' = inp.toks /\ intended' = inp.tree
    /\ stack' = <<Frame("parse_ast")>>
    /\ status' = "running"
    /\ UNCHANGED <<lexpos, retval, diags, ast, src_base, vnVars, poolVars>>

parse_ast == Running("parse_ast") /\ \E n \in {parse_ast_step(State)} : Step(n)
parse_fn == Running("parse_fn") /\ \E n \in {parse_fn_step(State)} : Step(n)
parse_block == Running("parse_block") /\ \E n \in {parse_block_step(State)} : Step(n)
parse_let == Running("parse_let") /\ \E n \in {parse_let_step(State)} : Step(n)
parse_expr_stmt == Running("parse_expr_stmt") /\ \E n \in {parse_expr_stmt_step(State)} : Step(n)
parse_return == Running("parse_return") /\ \E n \in {parse_return_step(State)} : Step(n)
parse_type == Running("parse_type") /\ \E n \in {parse_type_step(State)} : Step(n)
parse_comp == Running("parse_comp") /\ \E n \in {parse_comp_step(State)} : Step(n)
parse_term == Running("parse_term") /\ \E n \in {parse_term_step(State)} : Step(n)
parse_factor == Running("parse_factor") /\ \E n \in {parse_factor_step(State)} : Step(n)
parse_primary == Running("parse_primary") /\ \E n \in {parse_primary_step(State)} : Step(n)
parse_funcall == Running("parse_funcall") /\ \E n \in {parse_funcall_step(State)} : Step(n)

\* parse_primary's call of make_intlit_expr on a TOK_INT, alone
call_make_intlit_expr ==
    /\ status = "running" /\ stack = <<>>
    /\ LET r == lexer_next(State)
           m == make_intlit_expr(r.s, r.tok)
       IN Step(IF m.s.status = "running"
               THEN [m.s EXCEPT !.retval = m.e, !.status = "returned"]
               ELSE m.s)

(***************************************************************************)
(* Initial states and specifications                                       *)
(***************************************************************************)
VnIdle == reg = 1 /\ issued = <<>>
PoolIdle == pool = PoolUninit /\ regions = <<>> /\ vec = VecUninit /\ accesses = {}
ParseIdle ==
    /\ toks = <<>> /\ intended = NoTree /\ lexpos = 1 /\ stack = <<>>
    /\ retval = NullExpr /\ diags = <<>> /\ status = "idle"
    /\ ast = ast_init(NullPtr) /\ src_base = NullPtr

InitVN == VnIdle /\ PoolIdle /\ ParseIdle
NextVN == call_next_vn
SpecVN == InitVN /\ [][NextVN]_vars

InitPool == VnIdle /\ PoolIdle /\ ParseIdle
NextPool ==
    \/ mempool_init
    \/ mempool_deinit
    \/ call_mempool_alloc
    \/ vector_init
    \/ vector_init_size
    \/ vector_push
    \/ vector_alloc
    \/ vector_insert
    \/ vector_remove
SpecPool == InitPool /\ [][NextPool]_vars

\* one literal, lexed, inside an initialised AST
InitLit ==
    /\ VnIdle /\ PoolIdle
    /\ \E tk \in Literals : toks = Lex(<<tk>>)
    /\ intended = NoTree /\ lexpos = 1 /\ stack = <<>> /\ retval = NullExpr
    /\ diags = <<>> /\ status = "running"
    /\ ast = ast_init(Src) /\ src_base = NullPtr
NextLit == call_make_intlit_expr
SpecLit == InitLit /\ [][NextLit]_vars

\* the process before parse_ast is called: the global src_base holds its
\* initial null pointer
InitParse == VnIdle /\ PoolIdle /\ ParseIdle
NextParse ==
    \/ call_parse_ast
    \/ parse_ast
    \/ parse_fn
    \/ parse_block
    \/ parse_let
    \/ parse_expr_stmt
    \/ parse_return
    \/ parse_type
    \/ parse_comp
    \/ parse_term
    \/ parse_factor
    \/ parse_primary
    \/ parse_funcall
SpecParse == InitParse /\ [][NextParse]_vars

\* the parser is one thread that runs until it returns or the process ends
SpecParseFair == SpecParse /\ WF_vars(NextParse)

(***************************************************************************)
(* Claims about next_vn, the arena and the vector.                         *)
(***************************************************************************)

\* C4: over any sequence of calls to next_vn, whoever the callers are, the
\* first identifier returned is 1 and each later one is the previous plus 1,
\* so the identifiers strictly increase and none is issued twice.
C4_FreshIds == \A i \in 1..Len(issued) : issued[i].id = i

\* two callers have each been served
C4_Witness ==
    \E i, j \in 1..Len(issued) : i < j /\ issued[i].caller # issued[j].caller

\* every region returned lies wholly before every region returned later
RegionsDisjoint ==
    \A i, j \in 1..Len(regions) :
        i < j => regions[i].off + regions[i].len <= regions[j].off

\* a step of a live arena neither shrinks it nor forgets a returned region
ArenaGrowthOnly ==
    pool.state = "live" =>
        /\ pool'.size >= pool.size
        /\ pool'.alloc >= pool.alloc
        /\ Len(regions') >= Len(regions)
        /\ SubSeq(regions', 1, Len(regions)) = regions

\* C5: between mempool_init and mempool_deinit the arena only grows: size and
\* alloc never decrease, every region mempool_alloc returns is disjoint from
\* every region returned before, and no operation (vector_resize included)
\* releases or hands out again a region already returned.
C5_GrowthOnly == [][ArenaGrowthOnly]_vars /\ []RegionsDisjoint

\* a vector has been resized: the buffer it left behind is still a region of
\* the arena, below the buffer it uses now
C5_Witness ==
    /\ pool.state = "live" /\ vec.state = "live" /\ vec.items > 0
    /\ \E i, j \in 1..Len(regions) :
          /\ i < j
          /\ regions[j].off = vec.data /\ regions[j].len = Cap(vec)
          /\ regions[i].len > 0 /\ 2 * regions[i].len = Cap(vec)

\* C9: for a vector made by vector_init or vector_init_size (any item count,
\* 0 included), after any sequence of vector_push, vector_alloc, vector_insert
\* (idx <= items) and vector_remove (idx < items): items <= alloc, and every
\* byte the operation read or wrote lies inside a buffer of the vector.
C9_VectorInBounds ==
    vec.state = "live" =>
        /\ vec.items <= vec.alloc
        /\ \A a \in accesses : 0 <= a.lo /\ a.hi <= a.cap

\* C10: while no allocation has ended in the out-of-memory error,
\* size <= alloc <= POOL_MAX_SZ, alloc is a multiple of POOL_CHUNK_SZ, and every
\* region returned lies inside the read/write prefix [base, base + alloc).
C10_PoolInvariant ==
    pool.state = "live" =>
        /\ pool.size <= pool.alloc
        /\ pool.alloc <= POOL_MAX_SZ
        /\ pool.alloc % POOL_CHUNK_SZ = 0
        /\ pool.rw = pool.alloc
        /\ \A i \in 1..Len(regions) :
              regions[i].off + regions[i].len <= pool.rw
(***************************************************************************)
(* Claims about the parser.                                                *)
(***************************************************************************)
TheStmts == ast.fns[1].body.stmts

\* C1: an expression of primaries and binary operators parses to the tree in
\* which * / bind tighter than + -, + - tighter than the comparisons, operators
\* of one level associate to the left, and a parenthesised expression is one
\* primary: the program written from a tree parses, without error, to that tree.
C1_Precedence ==
    intended.t # "NONE" =>
        /\ status \in {"running", "returned"}
        /\ status = "returned" =>
              /\ Len(ast.fns) = 1
              /\ Len(TheStmts) = 1
              /\ TheStmts[1].t = "STMT_EXPR"
              /\ Shape(TheStmts[1].value) = intended

\* "( a weaker b ) stronger c" has been parsed
C1_Witness ==
    /\ status = "returned"
    /\ intended.t = "EXPR_BINOP"
    /\ intended.left.t = "EXPR_BINOP"
    /\ Level(intended.left.op) < Level(intended.op)
    /\ Shape(TheStmts[1].value) = intended

RECURSIVE DecimalValue(_)
DecimalValue(ds) ==
    IF ds = <<>> THEN 0 ELSE 10 * DecimalValue(SubSeq(ds, 1, Len(ds) - 1)) + ds[Len(ds)]

RECURSIVE SumDigits(_)
SumDigits(ds) == IF ds = <<>> THEN 0 ELSE ds[1] + SumDigits(Tail(ds))

\* the digits of a lexed literal: its text without the suffix
LitDigits(tk) == SubSeq(tk.chars, 1, Len(tk.chars) - intlit_pos_sz(tk.intlit_type))

Ended == status \in {"exit", "crash"}

\* C2: a literal suffixed u8 whose digits denote more than 255 is rejected:
\* make_intlit_expr reports an overflow at the literal's whole span, the
\* process ends in failure and no EXPR_INT node is returned.
C2_U8OverflowRejected ==
    (/\ toks # <<>> /\ status # "running"
     /\ toks[1].intlit_type = "INTLIT_U8" /\ DecimalValue(LitDigits(toks[1])) > 255)
    => /\ Ended
       /\ Len(diags) = 1
       /\ diags[1].msg = "overflow"
       /\ diags[1].pos = TokenAt(toks, 1).pos
       /\ retval.t # "EXPR_INT"

\* where the lexer stands once a token has been diagnosed: right behind it
\* (the end of the stream is never passed)
BehindDiagnosed(d) ==
    \/ lexpos > 1 /\ d.pos = TokenAt(toks, lexpos - 1).pos
    \/ lexpos > Len(toks) /\ d.pos = TokenAt(toks, lexpos).pos

\* C3: parsing is fail-fast: on the first syntax error exactly one diagnostic
\* is reported, the process ends unsuccessfully with the lexer standing right
\* behind the offending token, and parse_ast returns only when nothing was
\* reported.
C3_FailFast ==
    /\ status = "returned" => diags = <<>>
    /\ Ended => Len(diags) = 1
    /\ diags # <<>> => /\ Len(diags) = 1
                       /\ Ended
                       /\ BehindDiagnosed(diags[1])

\* a statement inside a function body was cut short by a wrong token
C3_Witness ==
    /\ Ended
    /\ Len(diags) = 1
    /\ lexpos <= Len(toks)
    /\ \E i \in 1..Len(stack) : stack[i].fn = "parse_block"

\* C6: the value of an EXPR_INT node is the sum of the digit values of all the
\* digits of the literal, suffix excluded, with no base-10 weighting, and its
\* literal type is the suffix's.
C6_ValueIsDigitSum ==
    (toks # <<>> /\ status = "returned") =>
        /\ retval.t = "EXPR_INT"
        /\ retval.val = SumDigits(LitDigits(toks[1]))
        /\ retval.lit = toks[1].intlit_type

\* C7: on a finite token stream ending in TOK_EOF, parse_ast eventually returns
\* or ends the process with an error.
C7_Terminates == (status = "running") ~> (status # "running")

\* a body with no closing '}': the parser ran into the end of the stream
C7_Witness ==
    /\ Ended
    /\ lexpos > Len(toks)
    /\ diags[1].pos.sz = 0
    /\ \E i \in 1..Len(stack) : stack[i].fn = "parse_block"

\* C8: every diagnostic raised while parse_ast(src) runs is rendered against
\* src: the base handed to log_source_err is src.
C8_DiagBaseIsSrc == \A i \in 1..Len(diags) : diags[i].base = Src

====
